---- MODULE Spec2Model ----
(***************************************************************************)
(* simple-profile: the unit model (types.py), the call measurement and the *)
(* call-log composer (utils.py) and the profiling wrappers with their      *)
(* top-level guard (decorators.py).                                        *)
(*                                                                         *)
(* Numbers.  Scales and measured values are exact multiples of a quantum:  *)
(* 1/16 byte for the memory family, 1/2 nanosecond for the time family.    *)
(* A quantity is the pair <<hi, lo>> standing for hi * 10^6 + lo quanta,   *)
(* so that a tebibyte and a day stay inside the checker's integers.        *)
(*                                                                         *)
(* Text.  A string is the sequence of its pieces (tokens); concatenation   *)
(* is \o and the empty string is << >>.                                    *)
(***************************************************************************)
EXTENDS Integers, Sequences, FiniteSets, TLC

VARIABLES
    sel,        \* unit selection: [cls, value, unit]
    logc,       \* call-log composition: [in, kind, message, out]
    cfg,        \* per wrapped callable: the configuration bound at wrap time
    top_level,  \* per wrapped callable: the flag of wraps_top_level
    tracing,    \* tracemalloc: whether tracing is active (process wide)
    traced,     \* tracemalloc: peak traced size since tracing started
    calls,      \* per function: number of times its body has been entered
    stack,      \* the call stack, innermost frame last
    ret,        \* the completion in flight: a return value or a raised failure
    stdout,     \* the lines printed since the program last read them
    ncalls      \* number of outermost calls the program has made

vars == <<sel, logc, cfg, top_level, tracing, traced, calls, stack, ret, stdout, ncalls>>

(***************************************************************************)
(* Bounds                                                                  *)
(***************************************************************************)
\* values tried on each side of every unit's scale, in quanta
MaxDelta == 2

(***************************************************************************)
(* Quantities                                                              *)
(***************************************************************************)
Base == 1000 * 1000

Q(hi, lo) == <<hi, lo>>

Zero == Q(0, 0)

Ge(a, b) == a[1] > b[1] \/ (a[1] = b[1] /\ a[2] >= b[2])

Add(a, d) == IF a[2] + d >= Base THEN Q(a[1] + 1, a[2] + d - Base) ELSE Q(a[1], a[2] + d)

\* a - d for a >= d
Sub(a, d) == IF a[2] >= d THEN Q(a[1], a[2] - d) ELSE Q(a[1] - 1, a[2] + Base - d)

(***************************************************************************)
(* types.py: the unit families.  A member is [name, value], value being    *)
(* the enum's tuple (scale, label) or (scale, label, selectable).          *)
(***************************************************************************)
MemoryUnit ==
    << [name |-> "BITS",      value |-> <<Q(0, 2), "b">>],                      \* 0.125
       [name |-> "BYTES",     value |-> <<Q(0, 16), "B">>],                     \* 1
       [name |-> "KILOBYTES", value |-> <<Q(0, 16000), "kB">>],                 \* 1E3
       [name |-> "KIBIBYTES", value |-> <<Q(0, 16384), "kiB", FALSE>>],         \* 1024
       [name |-> "MEGABYTES", value |-> <<Q(16, 0), "MB">>],                    \* 1E6
       [name |-> "MEBIBYTES", value |-> <<Q(16, 777216), "MiB", FALSE>>],       \* 1048576
       [name |-> "GIGABYTES", value |-> <<Q(16000, 0), "GB">>],                 \* 1E9
       [name |-> "GIBIBYTES", value |-> <<Q(17179, 869184), "GiB", FALSE>>],    \* 1073741824
       [name |-> "TERABYTES", value |-> <<Q(16000000, 0), "TB">>],              \* 1E12
       [name |-> "TEBIBYTES", value |-> <<Q(17592186, 44416), "TiB", FALSE>>] >> \* 1099511627776

TimeUnit ==
    << [name |-> "NANOSECONDS",  value |-> <<Q(0, 2), "ns">>],         \* 1E-9
       [name |-> "MICROSECONDS", value |-> <<Q(0, 2000), "us">>],      \* 1E-6
       [name |-> "MILLISECONDS", value |-> <<Q(2, 0), "ms">>],         \* 1E-3
       [name |-> "SECONDS",      value |-> <<Q(2000, 0), "s">>],       \* 1
       [name |-> "MINUTES",      value |-> <<Q(120000, 0), "m">>],     \* 60
       [name |-> "HOURS",        value |-> <<Q(7200000, 0), "h">>],    \* 3600
       [name |-> "DAYS",         value |-> <<Q(172800000, 0), "d">>] >> \* 86400

\* ExtendedEnum.list: the members in declaration order
list(cls) == IF cls = "MemoryUnit" THEN MemoryUnit ELSE TimeUnit

scale(unit) == unit.value[1]

label(unit) == unit.value[2]

selectable(unit) == Len(unit.value) < 3 \/ unit.value[3]

\* list.sort(key=scale, reverse=True): stable, largest scale first
RECURSIVE SortedInsert(_, _)
SortedInsert(units, unit) ==
    IF units = << >> THEN <<unit>>
    ELSE IF Ge(scale(Head(units)), scale(unit))
         THEN <<Head(units)>> \o SortedInsert(Tail(units), unit)
         ELSE <<unit>> \o units

RECURSIVE SortByScaleReverse(_)
SortByScaleReverse(units) ==
    IF units = << >> THEN << >>
    ELSE SortedInsert(SortByScaleReverse(SubSeq(units, 1, Len(units) - 1)), units[Len(units)])

RECURSIVE FirstSuitable(_, _, _)
FirstSuitable(units, i, value) ==
    IF i > Len(units) THEN units[Len(units)]
    ELSE IF selectable(units[i]) /\ Ge(value, scale(units[i])) THEN units[i]
    ELSE FirstSuitable(units, i + 1, value)

\* as FirstSuitable, with no regard for selectable()
RECURSIVE FirstAtMost(_, _, _)
FirstAtMost(units, i, value) ==
    IF i > Len(units) THEN units[Len(units)]
    ELSE IF Ge(value, scale(units[i])) THEN units[i]
    ELSE FirstAtMost(units, i + 1, value)

select_by_value_any_unit(cls, value) == FirstAtMost(SortByScaleReverse(list(cls)), 1, value)

select_by_value(cls, value) == FirstSuitable(SortByScaleReverse(list(cls)), 1, value)

(***************************************************************************)
(* Unit selection applied to values around every scale of both families.   *)
(***************************************************************************)
Families == {"MemoryUnit", "TimeUnit"}

NoUnit == [name |-> "", value |-> << >>]

\* 1536 bytes
Bytes1536 == Q(0, 1536 * 16)

Around(q) == {Add(q, d) : d \in 0..MaxDelta} \cup {Sub(q, d) : d \in 0..MaxDelta}

Samples(cls) ==
    UNION {Around(scale(list(cls)[i])) : i \in 1..Len(list(cls))}
        \cup {Zero} \cup (IF cls = "MemoryUnit" THEN {Bytes1536} ELSE {})

SelInit == sel \in UNION {[cls : {c}, value : Samples(c), unit : {NoUnit}] : c \in Families}

SelIdle == sel = [cls |-> "MemoryUnit", value |-> Zero, unit |-> NoUnit]

(***************************************************************************)
(* Unit.format_value (types.py).  "{value:.{precision}g} {unit}": the      *)
(* number is kept as the text of <<value, scale, precision>>, the exact     *)
(* quotient and the significant digits; a negative precision makes the     *)
(* format specification ".-1g", which str.format rejects with ValueError.  *)
(***************************************************************************)
format_raises(precision) == precision < 0

format_value(cls, value, unit, precision) ==
    LET u == IF unit = NoUnit THEN select_by_value(cls, value) ELSE unit
    IN  << ToString(<<value, scale(u), precision>>), " ", label(u) >>

(***************************************************************************)
(* utils.py: the call-log composer.                                        *)
(***************************************************************************)
None == "<None>"

CommaSpace == <<", ">>

\* str(): a value is its own text; the value "" has the empty text
str(item) == IF item = "" THEN << >> ELSE <<item>>

\* separator.join(parts)
RECURSIVE join(_, _)
join(separator, parts) ==
    IF parts = << >> THEN << >>
    ELSE IF Len(parts) = 1 THEN parts[1]
    ELSE parts[1] \o separator \o join(separator, Tail(parts))

\* filter(None, parts): the parts that are not the empty string
RECURSIVE filter_none(_)
filter_none(parts) ==
    IF parts = << >> THEN << >>
    ELSE IF Head(parts) = << >> THEN filter_none(Tail(parts))
    ELSE <<Head(parts)>> \o filter_none(Tail(parts))

format_array(array, separator) ==
    join(separator, [i \in 1..Len(array) |-> str(array[i])])

\* a dictionary is the sequence of its <<key, value>> items, in insertion order
format_dict(dictionary, separator) ==
    join(separator, [i \in 1..Len(dictionary) |-> <<dictionary[i][1], "=">> \o str(dictionary[i][2])])

format_args(args, kwargs, separator) ==
    IF Len(args) > 0 \/ Len(kwargs) > 0
    THEN join(separator, filter_none(<< format_array(args, CommaSpace), format_dict(kwargs, CommaSpace) >>))
    ELSE <<"None">>

select_profile_name(name, function) == IF name # None THEN <<name>> ELSE <<function>>

\* the call format_args(args, kwargs) of get_function_call_log: the separator
\* of the profile is not handed on, format_args uses its default ", "
call_log_args_with_separator(args, kwargs, separator) == format_args(args, kwargs, separator)

call_log_args(args, kwargs, separator) == format_args(args, kwargs, CommaSpace)

get_function_call_log_trailing(name, function, args, kwargs, result, print_args, print_result, separator) ==
    select_profile_name(name, function) \o separator
        \o (IF print_args THEN call_log_args(args, kwargs, separator) \o separator ELSE << >>)
        \o (IF print_result THEN str(result) ELSE << >>)

get_function_call_log(name, function, args, kwargs, result, print_args, print_result, separator) ==
    LET message0 == select_profile_name(name, function)
        message1 == IF print_args THEN message0 \o separator \o call_log_args(args, kwargs, separator) ELSE message0
        message2 == IF print_result THEN message1 \o separator \o str(result) ELSE message1
    IN  message2

(***************************************************************************)
(* decorators.py: the line each wrapper kind prints.                       *)
(***************************************************************************)
Kinds == {"memory", "time", "profile"}

wrapper_message(kind, name, function, args, kwargs, result, print_args, print_result, separator, peak_memory_usage, average_execution_time, memory_precision, time_precision) ==
    LET message == get_function_call_log(name, function, args, kwargs, result, print_args, print_result, separator)
        memory  == separator \o format_value("MemoryUnit", peak_memory_usage, NoUnit, memory_precision)
        time    == separator \o format_value("TimeUnit", average_execution_time, NoUnit, time_precision)
    IN  CASE kind = "memory"  -> message \o memory
          [] kind = "time"    -> message \o time
          [] kind = "profile" -> message \o memory \o time

(***************************************************************************)
(* The running program: two decorated functions, f and g.  The body of f   *)
(* may call f (recursion) or g, the body of g may call g; either may       *)
(* return or raise.  A body returns the number of times its function has   *)
(* been entered since the program last reset the counters, which it does   *)
(* before each outermost call: every invocation has its own result.        *)
(***************************************************************************)
\* nested calls of decorated names in progress at once
MaxDepth == 2

\* outermost calls the program makes
MaxCalls == 2

\* largest number of timing iterations configured
MaxIter == 2

Fns == {"f", "g"}

NoCfg == [kind |-> "none", iterations |-> 0, precision |-> 0]

\* iterations and precision are taken as given: 0 and negative ones included.
\* f is decorated with any of these; g with the valid ones of one iteration.
Configs(fn) ==
    IF fn = "f"
    THEN [kind : Kinds, iterations : 0..MaxIter, precision : {4}]
             \cup [kind : Kinds, iterations : {1}, precision : {-1, 0}]
    ELSE [kind : Kinds, iterations : {1}, precision : {4}]

NoRet == [kind |-> "none", val |-> <<"", "", 0>>]

\* the lines printed so far under the name of fn
LinesOf(fn) == Cardinality({k \in 1..Len(stdout) : stdout[k][1] = fn})

\* A frame: the function, the code it runs (guard: wraps_top_level's wrapper,
\* wrapper: the measuring wrapper, body: the function itself), where it stands,
\* and its locals.  id is the number of the entry of the body (of the body a
\* plain guard calls).  Two fields only record what happened: lines, the number
\* of lines of the function printed when the frame was entered, and invoked,
\* the entries of the body this wrapper has made itself.
Frame(fn, layer, pc, id, lines) ==
    [fn |-> fn, layer |-> layer, pc |-> pc, id |-> id, i |-> 0,
     result |-> <<"", "", 0>>, peak |-> 0, lines |-> lines, invoked |-> << >>]

Top == stack[Len(stack)]

Pop == SubSeq(stack, 1, Len(stack) - 1)

SetTop(frame) == [stack EXCEPT ![Len(stack)] = frame]

Depth == Cardinality({k \in 1..Len(stack) : stack[k].layer = "guard"})

\* bytes the body of a function allocates while it runs
BodyAllocation == 600

NoCalls == [fn \in Fns |-> 0]

\* the decorated names the body of a function calls
Callees(fn) == IF fn = "f" THEN {"f", "g"} ELSE {"g"}

\* entering the body of a function: one more entry
Entered(fn) == [calls EXCEPT ![fn] = @ + 1]

Max(a, b) == IF a >= b THEN a ELSE b

\* a body holds its allocation until it is left: with tracing active, the peak
\* is at least what the bodies in progress, the one entered included, hold
TracedAfterEntry(active, size) ==
    IF active
    THEN Max(size, BodyAllocation * (1 + Cardinality({k \in 1..Len(stack) : stack[k].layer = "body"})))
    ELSE size

BodyFrame(fn) == Frame(fn, "body", "run", calls[fn] + 1, LinesOf(fn))

(***************************************************************************)
(* decorators.py: memory_profile / time_profile / profile applied to a     *)
(* function.  Nothing is validated; wraps_top_level sets top_level = True. *)
(***************************************************************************)
Decorate(fn, config) ==
    /\ cfg[fn] = NoCfg
    /\ fn = "g" => cfg["f"] # NoCfg
    /\ cfg' = [cfg EXCEPT ![fn] = config]
    /\ top_level' = [top_level EXCEPT ![fn] = TRUE]
    /\ UNCHANGED <<sel, logc, tracing, traced, calls, stack, ret, stdout, ncalls>>

(***************************************************************************)
(* wraps_top_level.decorator.wrapper, entry: the flag decides between the  *)
(* measuring wrapper (try: top_level = False; wrapped(...)) and the plain  *)
(* function.                                                               *)
(***************************************************************************)
first_pc(kind) == IF kind = "time" THEN "timing" ELSE "start"

guard_takes_wrapped_always(flag) == TRUE

guard_takes_wrapped(flag) == flag

\* the frames pushed by a call of the decorated name fn, the entries of the
\* functions counted from `count` and `lines` lines of fn printed so far
GuardEntry(fn, under, count, lines) ==
    IF guard_takes_wrapped(top_level[fn])
    THEN /\ top_level' = [top_level EXCEPT ![fn] = FALSE]
         /\ stack' = under \o << Frame(fn, "guard", "wrapped", 0, lines),
                                 Frame(fn, "wrapper", first_pc(cfg[fn].kind), 0, lines) >>
         /\ calls' = count
         /\ UNCHANGED traced
    ELSE /\ stack' = under \o << Frame(fn, "guard", "plain", count[fn] + 1, lines),
                                 Frame(fn, "body", "run", count[fn] + 1, lines) >>
         /\ calls' = [count EXCEPT ![fn] = @ + 1]
         /\ traced' = TracedAfterEntry(tracing, traced)
         /\ UNCHANGED top_level

\* the program calls the decorated name fn, having read what was printed and
\* reset the counters of the functions
Call(fn) ==
    /\ \A c \in Fns : cfg[c] # NoCfg
    /\ stack = << >>
    /\ ncalls < MaxCalls
    /\ ncalls' = ncalls + 1
    /\ ret' = NoRet
    /\ stdout' = << >>
    /\ GuardEntry(fn, stack, NoCalls, 0)
    /\ UNCHANGED <<sel, logc, cfg, tracing>>

\* the body of a function calls the decorated name fn
BodyCall(fn) ==
    /\ stack # << >>
    /\ Top.layer = "body" /\ Top.pc = "run"
    /\ fn \in Callees(Top.fn)
    /\ Depth < MaxDepth
    /\ GuardEntry(fn, SetTop([Top EXCEPT !.pc = "called"]), calls, LinesOf(fn))
    /\ UNCHANGED <<sel, logc, cfg, tracing, ret, stdout, ncalls>>

\* the body returns: at once, or after the call it made has returned
BodyReturn ==
    /\ stack # << >>
    /\ Top.layer = "body"
    /\ \/ Top.pc = "run"
       \/ Top.pc = "called" /\ ret.kind = "return"
    /\ ret' = [kind |-> "return", val |-> <<"value", Top.fn, Top.id>>]
    /\ stack' = Pop
    /\ UNCHANGED <<sel, logc, cfg, top_level, tracing, traced, calls, stdout, ncalls>>

\* the body raises: a failure of its own, or the one of the call it made
BodyRaise ==
    /\ stack # << >>
    /\ Top.layer = "body"
    /\ \/ /\ Top.pc = "run"
          /\ ret' = [kind |-> "raise", val |-> <<"TargetError", Top.fn, Top.id>>]
       \/ /\ Top.pc = "called" /\ ret.kind = "raise"
          /\ ret' = ret
    /\ stack' = Pop
    /\ UNCHANGED <<sel, logc, cfg, top_level, tracing, traced, calls, stdout, ncalls>>

(***************************************************************************)
(* wraps_top_level.decorator.wrapper, exit: finally: top_level = True on   *)
(* the guarded path; the plain path hands the completion on.               *)
(***************************************************************************)
flag_after_exit_no_finally(owned, outcome, flag) == IF owned /\ outcome = "return" THEN TRUE ELSE flag

flag_after_exit(owned, outcome, flag) == IF owned THEN TRUE ELSE flag

GuardExit ==
    /\ stack # << >>
    /\ Top.layer = "guard"
    /\ ret.kind # "none"
    /\ top_level' = [top_level EXCEPT ![Top.fn] = flag_after_exit(Top.pc = "wrapped", ret.kind, @)]
    /\ stack' = Pop
    /\ UNCHANGED <<sel, logc, cfg, tracing, traced, calls, ret, stdout, ncalls>>

(***************************************************************************)
(* utils.py: measure_memory_usage / measure_peak_memory_usage, with the    *)
(* behaviour of tracemalloc: start() does nothing when tracing is active,  *)
(* get_traced_memory() is (0, 0) when it is not, stop() clears the traces. *)
(***************************************************************************)
tracemalloc_start(active, size) == [active |-> TRUE, size |-> IF active THEN size ELSE 0]

get_traced_peak(active, size) == IF active THEN size ELSE 0

\* tracemalloc.start(); result = function(...)
MeasureMemoryStart ==
    /\ stack # << >>
    /\ Top.layer = "wrapper" /\ Top.pc = "start"
    /\ LET t == tracemalloc_start(tracing, traced)
       IN  /\ tracing' = t.active
           /\ traced' = TracedAfterEntry(t.active, t.size)
    /\ calls' = Entered(Top.fn)
    /\ stack' = SetTop([Top EXCEPT !.pc = "mem_call", !.invoked = Append(@, calls[Top.fn] + 1)]) \o <<BodyFrame(Top.fn)>>
    /\ UNCHANGED <<sel, logc, cfg, top_level, ret, stdout, ncalls>>

\* memory_usage = tracemalloc.get_traced_memory(); tracemalloc.stop();
\* return memory_usage[1], result
MeasureMemoryFinish ==
    /\ stack # << >>
    /\ Top.layer = "wrapper" /\ Top.pc = "mem_call"
    /\ ret.kind = "return"
    /\ stack' = SetTop([Top EXCEPT !.result = ret.val,
                                   !.peak = get_traced_peak(tracing, traced),
                                   !.pc = IF cfg[Top.fn].kind = "memory" THEN "log" ELSE "timing"])
    /\ tracing' = FALSE
    /\ traced' = 0
    /\ ret' = NoRet
    /\ UNCHANGED <<sel, logc, cfg, top_level, calls, stdout, ncalls>>

(***************************************************************************)
(* utils.py: measure_execution_time / measure_average_execution_time.      *)
(* timeit calls the function `number` times and discards what it returns.  *)
(* decorators.py passes enable_gc as a fifth argument, which the revision   *)
(* of utils.py at hand does not declare; the call is modelled as the       *)
(* timing it asks for, and the collector is not part of the state.         *)
(***************************************************************************)
timeit_number_plus_one(iterations) == iterations + 1

timeit_number(iterations) == iterations

\* one pass of the timing loop: function(...)
TimingIterate ==
    /\ stack # << >>
    /\ Top.layer = "wrapper" /\ Top.pc = "timing"
    /\ ret.kind # "raise"
    /\ Top.i < timeit_number(cfg[Top.fn].iterations)
    /\ calls' = Entered(Top.fn)
    /\ traced' = TracedAfterEntry(tracing, traced)
    /\ stack' = SetTop([Top EXCEPT !.i = @ + 1, !.invoked = Append(@, calls[Top.fn] + 1)]) \o <<BodyFrame(Top.fn)>>
    /\ ret' = NoRet
    /\ UNCHANGED <<sel, logc, cfg, top_level, tracing, stdout, ncalls>>

\* the average: execution_time / iterations, a division by zero for
\* iterations = 0; then, in the time wrapper, result = function(...)
TimingFinish ==
    /\ stack # << >>
    /\ Top.layer = "wrapper" /\ Top.pc = "timing"
    /\ ret.kind # "raise"
    /\ Top.i >= timeit_number(cfg[Top.fn].iterations)
    /\ IF cfg[Top.fn].iterations = 0
       THEN /\ stack' = Pop
            /\ ret' = [kind |-> "raise", val |-> <<"ZeroDivisionError", Top.fn, 0>>]
            /\ UNCHANGED <<calls, traced>>
       ELSE IF cfg[Top.fn].kind = "time"
       THEN /\ stack' = SetTop([Top EXCEPT !.pc = "extra", !.invoked = Append(@, calls[Top.fn] + 1)]) \o <<BodyFrame(Top.fn)>>
            /\ calls' = Entered(Top.fn)
            /\ traced' = TracedAfterEntry(tracing, traced)
            /\ ret' = NoRet
       ELSE /\ stack' = SetTop([Top EXCEPT !.pc = "log"])
            /\ ret' = NoRet
            /\ UNCHANGED <<calls, traced>>
    /\ UNCHANGED <<sel, logc, cfg, top_level, tracing, stdout, ncalls>>

\* time wrapper: the value of result = function(...)
ExtraResult ==
    /\ stack # << >>
    /\ Top.layer = "wrapper" /\ Top.pc = "extra"
    /\ ret.kind = "return"
    /\ stack' = SetTop([Top EXCEPT !.result = ret.val, !.pc = "log"])
    /\ ret' = NoRet
    /\ UNCHANGED <<sel, logc, cfg, top_level, tracing, traced, calls, stdout, ncalls>>

(***************************************************************************)
(* decorators.py: the wrappers compose the message, print it and return    *)
(* the result.  The program calls f() and g() without arguments and leaves *)
(* name, print_args, print_result and separator at their defaults.         *)
(***************************************************************************)
DefaultSeparator == <<" | ">>

\* the average time one call is measured to take: 1.5 microseconds
MeasuredAverage == Q(0, 3000)

Log ==
    /\ stack # << >>
    /\ Top.layer = "wrapper" /\ Top.pc = "log"
    /\ stack' = Pop
    /\ IF format_raises(cfg[Top.fn].precision)
       THEN /\ ret' = [kind |-> "raise", val |-> <<"ValueError", Top.fn, 0>>]
            /\ UNCHANGED stdout
       ELSE /\ stdout' = Append(stdout,
                   wrapper_message(cfg[Top.fn].kind, None, Top.fn, << >>, << >>, ToString(Top.result),
                                   FALSE, FALSE, DefaultSeparator,
                                   Q(0, Top.peak * 16), MeasuredAverage,
                                   cfg[Top.fn].precision, cfg[Top.fn].precision))
            /\ ret' = [kind |-> "return", val |-> Top.result]
    /\ UNCHANGED <<sel, logc, cfg, top_level, tracing, traced, calls, ncalls>>

\* no wrapper catches anything: a failure of the function leaves the wrapper
\* as it is, past the statements that follow the call
propagated_as_none(failure) == [kind |-> "return", val |-> <<"value", "None", 0>>]

propagated(failure) == failure

WrapperUnwind ==
    /\ stack # << >>
    /\ Top.layer = "wrapper"
    /\ ret.kind = "raise"
    /\ stack' = Pop
    /\ ret' = propagated(ret)
    /\ UNCHANGED <<sel, logc, cfg, top_level, tracing, traced, calls, stdout, ncalls>>

(***************************************************************************)
(* The program                                                             *)
(***************************************************************************)
LogIdle == logc = [in |-> << >>, kind |-> "none", message |-> << >>, out |-> << >>]

ProgramInit ==
    /\ cfg = [fn \in Fns |-> NoCfg]
    /\ top_level = [fn \in Fns |-> TRUE]
    /\ tracing = FALSE
    /\ traced = 0
    /\ calls = NoCalls
    /\ stack = << >>
    /\ ret = NoRet
    /\ stdout = << >>
    /\ ncalls = 0

Init == SelIdle /\ LogIdle /\ ProgramInit

Next ==
    \/ \E fn \in Fns : \E config \in Configs(fn) : Decorate(fn, config)
    \/ \E fn \in Fns : Call(fn)
    \/ \E fn \in Fns : BodyCall(fn)
    \/ BodyReturn
    \/ BodyRaise
    \/ GuardExit
    \/ MeasureMemoryStart
    \/ MeasureMemoryFinish
    \/ TimingIterate
    \/ TimingFinish
    \/ ExtraResult
    \/ Log
    \/ WrapperUnwind

Spec == Init /\ [][Next]_vars

(***************************************************************************)
(* Unit selection on its own: Unit.format_value with no unit given selects *)
(* the unit by the value.                                                  *)
(***************************************************************************)
SelectByValue ==
    /\ sel.unit = NoUnit
    /\ sel' = [sel EXCEPT !.unit = select_by_value(sel.cls, sel.value)]
    /\ UNCHANGED <<logc, cfg, top_level, tracing, traced, calls, stack, ret, stdout, ncalls>>

InitUnit == SelInit /\ LogIdle /\ ProgramInit

NextUnit == SelectByValue

SpecUnit == InitUnit /\ [][NextUnit]_vars

(***************************************************************************)
(* The call log on its own: a wrapper of each kind composes the line of a  *)
(* call f(...) that returned result.                                       *)
(***************************************************************************)
\* positional arguments, and keyword arguments, of a logged call
MaxArgs == 2

ArgValues == {"1", ""}

Keys == {"a", "b"}

ArgTuples == UNION {[1..n -> ArgValues] : n \in 0..MaxArgs}

KwargDicts ==
    {d \in UNION {[1..n -> Keys \X {"3"}] : n \in 0..MaxArgs} :
        \A i, j \in 1..Len(d) : i # j => d[i][1] # d[j][1]}

LogInputs ==
    [name : {None, "custom"}, function : {"f"}, args : ArgTuples, kwargs : KwargDicts,
     result : {"r"}, print_args : BOOLEAN, print_result : BOOLEAN,
     separator : {<<" | ">>, CommaSpace}]

\* what the measurements of the logged call gave: 1536 bytes, 1.5 microseconds
LoggedPeak == Bytes1536

LoggedAverage == Q(0, 3000)

Compose(kind) ==
    /\ logc.kind = "none"
    /\ LET in == logc.in
       IN  logc' = [logc EXCEPT
               !.kind = kind,
               !.message = get_function_call_log(in.name, in.function, in.args, in.kwargs, in.result,
                                                 in.print_args, in.print_result, in.separator),
               !.out = wrapper_message(kind, in.name, in.function, in.args, in.kwargs, in.result,
                                       in.print_args, in.print_result, in.separator,
                                       LoggedPeak, LoggedAverage, 4, 4)]
    /\ UNCHANGED <<sel, cfg, top_level, tracing, traced, calls, stack, ret, stdout, ncalls>>

InitLog ==
    /\ SelIdle
    /\ logc \in [in : LogInputs, kind : {"none"}, message : {<< >>}, out : {<< >>}]
    /\ ProgramInit

NextLog == \E kind \in Kinds : Compose(kind)

SpecLog == InitLog /\ [][NextLog]_vars

(***************************************************************************)
(* Properties                                                              *)
(***************************************************************************)
Running == stack # << >>

AtGuardExit == Running /\ Top.layer = "guard" /\ ret.kind # "none"

WrapperFrames(fn) == {k \in 1..Len(stack) : stack[k].fn = fn /\ stack[k].layer = "wrapper"}

\* C1: a function that calls its decorated name is measured and logged once per
\* outermost call: at most one measuring wrapper of a function is ever in
\* progress; an outermost call that returns has printed exactly one line of the
\* function, and none that fails has printed more; a nested call prints nothing
\* and returns what the plain function, entered once for it, returned.
C1_RecursionLoggedOnce ==
    /\ \A fn \in Fns : Cardinality(WrapperFrames(fn)) <= 1
    /\ \A k \in 1..Len(stack) :
          stack[k].layer = "guard" => LinesOf(stack[k].fn) <= stack[k].lines + 1
    /\ AtGuardExit /\ Top.pc = "wrapped" /\ ret.kind = "return" =>
          LinesOf(Top.fn) = Top.lines + 1
    /\ AtGuardExit /\ Top.pc = "plain" =>
          /\ LinesOf(Top.fn) = Top.lines
          /\ ret.kind = "return" => ret.val = <<"value", Top.fn, Top.id>>

\* an outermost call of f under the memory wrapper returns after f has called
\* itself: two entries of the body, one line
C1_Witness ==
    /\ AtGuardExit /\ Len(stack) = 1 /\ Top.fn = "f" /\ Top.pc = "wrapped"
    /\ cfg["f"].kind = "memory"
    /\ ret.kind = "return"
    /\ calls["f"] = 2 /\ calls["g"] = 0
    /\ LinesOf("f") = 1

\* C2: the flag of a wrapped callable is false exactly while a guarded call of it
\* is in progress; with no call in progress it is true, after a return as after
\* a failure.
C2_FlagResetOnEveryExit ==
    \A fn \in Fns :
        top_level[fn] = ~(\E k \in 1..Len(stack) :
                              stack[k].fn = fn /\ stack[k].layer = "guard" /\ stack[k].pc = "wrapped")

\* an outermost call has failed, no call is in progress, and the flags are true
C2_Witness ==
    /\ ~Running /\ ncalls > 0
    /\ ret.kind = "raise"
    /\ \A fn \in Fns : top_level[fn]

\* C3: when no call is in progress, memory tracing is not active.
C3_TracingTornDown == ~Running => ~tracing

C5_NoConfigurationErrorDuringCall ==
    ret.kind = "raise" => ret.val[1] \notin {"ZeroDivisionError", "ValueError"}

\* C6: a wrapper that gets as far as its log line has entered the function once
\* (memory) or iterations + 1 times (time, combined), and returns the result of
\* the first of these entries (memory, combined) or of the last (time).
ExpectedInvocations(fn) == IF cfg[fn].kind = "memory" THEN 1 ELSE cfg[fn].iterations + 1

C7_LargestSelectableUnit ==
    sel.unit # NoUnit =>
        LET units == {list(sel.cls)[i] : i \in 1..Len(list(sel.cls))}
            fit   == {u \in units : (Len(u.value) = 2 \/ u.value[3]) /\ Ge(sel.value, u.value[1])}
        IN  /\ sel.unit \in units
            /\ IF fit # {}
               THEN sel.unit \in fit /\ \A u \in fit : Ge(sel.unit.value[1], u.value[1])
               ELSE \A u \in units : Ge(u.value[1], sel.unit.value[1])
            /\ sel.unit.name \notin {"KIBIBYTES", "MEBIBYTES", "GIBIBYTES", "TEBIBYTES"}
            /\ (sel.cls = "MemoryUnit" /\ sel.value = Bytes1536) => sel.unit.name = "KILOBYTES"

C7_Witness ==
    /\ sel.cls = "MemoryUnit" /\ sel.value = Bytes1536
    /\ sel.unit.name = "KILOBYTES"

\* C8: the line is the resolved name and the blocks enabled, in the order
\* arguments, result, memory, time, with the separator between neighbours only;
\* with neither arguments nor result asked for the composer gives the name
\* alone, and a call without arguments has the arguments block "None".
RECURSIVE Interleaved(_, _, _)
Interleaved(blocks, separator, k) ==
    IF k > Len(blocks) THEN << >>
    ELSE (IF k = 1 THEN << >> ELSE separator) \o blocks[k] \o Interleaved(blocks, separator, k + 1)

Pick(present, block) == IF present THEN <<block>> ELSE << >>

C8_LineOfEnabledBlocks ==
    logc.kind # "none" =>
        LET in       == logc.in
            resolved == IF in.name = None THEN <<in.function>> ELSE <<in.name>>
            noargs   == in.args = << >> /\ in.kwargs = << >>
            argblock == IF noargs THEN <<"None">> ELSE format_args(in.args, in.kwargs, CommaSpace)
            head     == <<resolved>> \o Pick(in.print_args, argblock) \o Pick(in.print_result, <<in.result>>)
            memory   == format_value("MemoryUnit", LoggedPeak, NoUnit, 4)
            time     == format_value("TimeUnit", LoggedAverage, NoUnit, 4)
            blocks   == head \o Pick(logc.kind \in {"memory", "profile"}, memory)
                             \o Pick(logc.kind \in {"time", "profile"}, time)
        IN  /\ logc.message = Interleaved(head, in.separator, 1)
            /\ logc.out = Interleaved(blocks, in.separator, 1)
            /\ (~in.print_args /\ ~in.print_result) => logc.message = resolved

\* the combined wrapper, no name given, arguments and result asked for, a call
\* without arguments
C8_Witness ==
    /\ logc.kind = "profile"
    /\ logc.in.name = None /\ logc.in.print_args /\ logc.in.print_result
    /\ logc.in.args = << >> /\ logc.in.kwargs = << >>
    /\ logc.message = <<"f", " | ", "None", " | ", "r">>

\* the arguments block of a composed message: what stands between the name with
\* its separator and the result with its separator
ArgumentsBlock ==
    SubSeq(logc.message, 3,
           Len(logc.message) - (IF logc.in.print_result THEN 1 + Len(str(logc.in.result)) ELSE 0))

Positional == format_array(logc.in.args, CommaSpace)

Keywords == format_dict(logc.in.kwargs, CommaSpace)

\* C9 as stated, for arguments that do not render as the empty string: with
\* positional and keyword arguments the block is the two renderings joined by
\* the separator of the profile; with one kind only it is that rendering alone.
C9_JoinedByProfileSeparator ==
    (logc.kind # "none" /\ logc.in.print_args /\ \A i \in 1..Len(logc.in.args) : logc.in.args[i] # "") =>
        /\ (logc.in.args # << >> /\ logc.in.kwargs # << >>) =>
              ArgumentsBlock = Positional \o logc.in.separator \o Keywords
        /\ (logc.in.args # << >> /\ logc.in.kwargs = << >>) => ArgumentsBlock = Positional
        /\ (logc.in.args = << >> /\ logc.in.kwargs # << >>) => ArgumentsBlock = Keywords

\* C9: with positional and keyword arguments the block is the two renderings
\* joined by ", ", whatever the separator of the profile, provided neither
\* rendering is empty; an empty rendering is left out, separator included.
C9_JoinedByCommaSpace ==
    (logc.kind # "none" /\ logc.in.print_args /\ (logc.in.args # << >> \/ logc.in.kwargs # << >>)) =>
        ArgumentsBlock =
            CASE Positional # << >> /\ Keywords # << >> -> Positional \o <<", ">> \o Keywords
              [] Positional # << >> /\ Keywords = << >> -> Positional
              [] OTHER -> Keywords

\* f(1, a=3) logged with the separator " | "
C9_Witness ==
    /\ logc.kind # "none" /\ logc.in.print_args /\ ~logc.in.print_result
    /\ logc.in.name = None
    /\ logc.in.separator = <<" | ">>
    /\ logc.in.args = <<"1">> /\ logc.in.kwargs = << <<"a", "3">> >>
    /\ logc.message = <<"f", " | ", "1", ", ", "a", "=", "3">>

\* C10: when a wrapper reads the peak back after the function has returned,
\* tracing is active, and the peak it reads is not zero.
C10_TracingActiveAtReadBack ==
    /\ (Running /\ Top.layer = "wrapper" /\ Top.pc = "mem_call" /\ ret.kind = "return") => tracing
    /\ (Running /\ Top.layer = "wrapper" /\ Top.pc = "log" /\ cfg[Top.fn].kind # "time") => Top.peak > 0

====
